---- MODULE Spec2Model ----
(***************************************************************************)
(* Model of the telemetry store of WEB_APPLICATION/enhanced_app.py         *)
(* (class EnhancedDigitalTwinApp): the sample devices, the sample alerts   *)
(* and the time-boxed dashboard cache, with the five read accessors that   *)
(* the HTTP routes call.                                                   *)
(*                                                                         *)
(* A device is kept as its status, health_score and value, an alert as its *)
(* id, timestamp, category, acknowledged and resolved, a snapshot as its   *)
(* timestamp and status counts: the fields the accessors branch on or the  *)
(* properties below read.                                                  *)
(*                                                                         *)
(* Units.  Instants are integers counted in minutes from datetime.min.     *)
(* health_score is kept in hundredths (0.8 is 80), value in hundredths of  *)
(* its unit, a jitter factor in thousandths (-0.1 is -100).                *)
(***************************************************************************)
EXTENDS Integers, Sequences, FiniteSets, TLC

VARIABLES sample_devices, sample_alerts, data_cache, last_cache_update,
          now, last, last_dash, held, threads

vars == <<sample_devices, sample_alerts, data_cache, last_cache_update,
          now, last, last_dash, held, threads>>

(***************************************************************************)
(* Bounds of the model.                                                    *)
(***************************************************************************)
\* devices generated at startup (the code generates 20)
NumDevices == 2
\* alerts generated at startup (the code generates 15)
NumSampleAlerts == 3
\* instant of construction, in minutes after datetime.min
StartTime == 3
\* minutes of wall-clock time explored after construction
Horizon == 3
\* largest limit passed to get_alerts_data
MaxLimit == 4
\* requests served at the same time by the threaded server
NumThreads == 2

(***************************************************************************)
(* Program constants.                                                      *)
(***************************************************************************)
\* self.last_cache_update = datetime.min
DatetimeMin == 0
\* self.cache_ttl = timedelta(minutes=2)
cache_ttl == 2
\* self.sample_alerts = self.sample_alerts[:50]
AlertCap == 50
\* for i in range(24) in _generate_sensor_pattern
SeriesPoints == 24

Min(a, b) == IF a < b THEN a ELSE b
Max(a, b) == IF a > b THEN a ELSE b

(***************************************************************************)
(* Devices.                                                                *)
(***************************************************************************)
Statuses == {"normal", "warning", "critical"}

\* The bounds np.random.uniform is called with for the health of a status.
HealthLow(status) ==
    IF status = "normal" THEN 80 ELSE IF status = "warning" THEN 50 ELSE 10

HealthHigh(status) ==
    IF status = "normal" THEN 100 ELSE IF status = "warning" THEN 80 ELSE 50

\* np.random.uniform(low, high) draws from [low, high): the sample taken is
\* the low end or the middle of the interval.
Uniform(low, high, pick) == IF pick = "low" THEN low ELSE (low + high) \div 2

Picks == {"mid"}

\* generate_sample_devices: status from status_rand (in hundredths).
InitialStatus(status_rand) ==
    IF status_rand > 15 THEN "normal"
    ELSE IF status_rand > 5 THEN "warning"
    ELSE "critical"

\* samples of np.random.random() on both sides of each threshold
StatusRands == {5, 15, 16}

\* The values of the devices are Python floats: IEEE 754 binary64 numbers,
\* whose operations give the representable number nearest to the exact
\* result, a tie going to the even mantissa.  A float is modelled exactly as
\* [m, e], standing for m * 2^e, with m a natural number of at most
\* MantissaBits bits (or 2^MantissaBits itself) written as the sequence of
\* its digits in base Limb, the least significant first.
MantissaBits == 53
LimbBits == 12
Limb == 4096

RECURSIVE Pow2(_)
Pow2(n) == IF n = 0 THEN 1 ELSE 2 * Pow2(n - 1)

\* the digits of a natural number without its leading zeros
RECURSIVE Trim(_)
Trim(x) ==
    IF x # <<>> /\ x[Len(x)] = 0 THEN Trim(SubSeq(x, 1, Len(x) - 1)) ELSE x

RECURSIVE Carry(_, _)
Carry(digits, carry) ==
    IF digits = <<>>
    THEN IF carry = 0 THEN <<>>
         ELSE <<carry % Limb>> \o Carry(<<>>, carry \div Limb)
    ELSE <<(Head(digits) + carry) % Limb>>
            \o Carry(Tail(digits), (Head(digits) + carry) \div Limb)

RECURSIVE BigToInt(_)
BigToInt(x) == IF x = <<>> THEN 0 ELSE Head(x) + Limb * BigToInt(Tail(x))

Digit(x, i) == IF i \in 1..Len(x) THEN x[i] ELSE 0

BigAdd(x, y) ==
    Carry([i \in 1..Max(Len(x), Len(y)) |-> Digit(x, i) + Digit(y, i)], 0)

RECURSIVE Borrow(_, _, _, _)
Borrow(x, y, i, b) ==
    IF i > Len(x) THEN <<>>
    ELSE IF x[i] - Digit(y, i) - b < 0
    THEN <<x[i] - Digit(y, i) - b + Limb>> \o Borrow(x, y, i + 1, 1)
    ELSE <<x[i] - Digit(y, i) - b>> \o Borrow(x, y, i + 1, 0)

\* x - y for x >= y
BigSub(x, y) == Trim(Borrow(x, y, 1, 0))

RECURSIVE Conv(_, _, _, _)
Conv(x, y, k, i) ==
    IF i > Len(x) THEN 0
    ELSE Digit(x, i) * Digit(y, k + 1 - i) + Conv(x, y, k, i + 1)

BigMul(x, y) ==
    IF x = <<>> \/ y = <<>> THEN <<>>
    ELSE Carry([k \in 1..(Len(x) + Len(y) - 1) |-> Conv(x, y, k, 1)], 0)

\* x * k for 0 < k < 2^18
BigTimes(x, k) == Carry([i \in 1..Len(x) |-> x[i] * k], 0)

\* quotient and remainder by d of the number whose lowest digit is low and
\* whose higher digits have the quotient and remainder high
DivStep(high, low, d) ==
    [quot |-> <<(high.rem * Limb + low) \div d>> \o high.quot,
     rem |-> (high.rem * Limb + low) % d]

\* quotient and remainder of x by a d below 2^18
RECURSIVE DivRem(_, _)
DivRem(x, d) ==
    IF x = <<>> THEN [quot |-> <<>>, rem |-> 0]
    ELSE DivStep(DivRem(Tail(x), d), Head(x), d)

BigShl(x, n) ==
    IF x = <<>> THEN <<>>
    ELSE [i \in 1..(n \div LimbBits) |-> 0]
            \o BigTimes(x, Pow2(n % LimbBits))

BigShr(x, n) ==
    Trim(DivRem(SubSeq(x, n \div LimbBits + 1, Len(x)),
                Pow2(n % LimbBits)).quot)

\* x < y, for x and y without leading zeros
RECURSIVE BigLess(_, _)
BigLess(x, y) ==
    IF Len(x) # Len(y) THEN Len(x) < Len(y)
    ELSE IF x = <<>> THEN FALSE
    ELSE IF x[Len(x)] # y[Len(y)] THEN x[Len(x)] < y[Len(y)]
    ELSE BigLess(SubSeq(x, 1, Len(x) - 1), SubSeq(y, 1, Len(y) - 1))

RECURSIVE SmallBits(_)
SmallBits(n) == IF n = 0 THEN 0 ELSE 1 + SmallBits(n \div 2)

BitLength(x) ==
    IF x = <<>> THEN 0
    ELSE LimbBits * (Len(x) - 1) + SmallBits(x[Len(x)])

\* (x + r) / 2^n rounded to the nearest natural number, a tie to the even
\* one, for x > 0, where r is 0, or a remainder in (0, 1) left out of x when
\* sticky: the floor of x / 2^n after half of 2^n is added to x, or one
\* less than the half when a tie has to go down
RoundHalf(x, n, half, below) ==
    BigShr(BigAdd(x, IF below THEN BigSub(half, <<1>>) ELSE half), n)

RoundShift(x, n, sticky) ==
    IF x = <<>> THEN <<>>
    ELSE IF n <= 0 THEN BigShl(x, -n)
    ELSE RoundHalf(x, n, BigShl(<<1>>, n - 1),
                   ~sticky /\ (Digit(x, n \div LimbBits + 1)
                                  \div Pow2(n % LimbBits)) % 2 = 0)

\* the float nearest to (x + r) * 2^e
FloatOfBits(x, e, sticky, bits) ==
    IF bits <= MantissaBits THEN [m |-> x, e |-> e]
    ELSE [m |-> RoundShift(x, bits - MantissaBits, sticky),
          e |-> e + bits - MantissaBits]

Float(x, e, sticky) == FloatOfBits(x, e, sticky, BitLength(x))

\* bits kept of a quotient before it is rounded to a float
GuardBits == 72

FloatOfQuotient(d) == Float(Trim(d.quot), -GuardBits, d.rem # 0)

\* the float nearest to num / den, for num >= 0 and 0 < den < 2^18: the
\* float a decimal literal or a round(x, 2) of that value gives
FloatOfRatio(num, den) ==
    FloatOfQuotient(DivRem(BigShl(Carry(<<>>, num), GuardBits), den))

\* x * y of two floats
FloatMul(x, y) == Float(BigMul(x.m, y.m), x.e + y.e, FALSE)

\* a + b, or a - b when negative, and 0 when that is below 0
AddOrSub(a, b, negative) ==
    IF ~negative THEN BigAdd(a, b)
    ELSE IF BigLess(a, b) THEN <<>>
    ELSE BigSub(a, b)

FloatAddAt(x, y, negative, e) ==
    Float(AddOrSub(BigShl(x.m, x.e - e), BigShl(y.m, y.e - e), negative),
          e, FALSE)

\* max(0, x + y) of two non-negative floats, or max(0, x - y) when negative
FloatAdd(x, y, negative) == FloatAddAt(x, y, negative, Min(x.e, y.e))

\* round(x, 2) of a non-negative float, in hundredths: the decimal with two
\* places nearest to the exact value of the float, a tie to the even one
Round2(x) == BigToInt(RoundShift(BigTimes(x.m, 100), -x.e, FALSE))

Abs(n) == IF n < 0 THEN -n ELSE n

\* the variation of line 370 added twice to the value
FloatAddTwice(value, variation, negative) ==
    Round2(FloatAdd(FloatAdd(value, variation, negative), variation,
                    negative))

NewValueAddingTwice(value, jitter) ==
    FloatAddTwice(FloatOfRatio(value, 100),
                  FloatMul(FloatOfRatio(Abs(jitter), 1000),
                           FloatOfRatio(value, 100)),
                  jitter < 0)

\* lines 370-371 on floats: variation = uniform * current_value, then
\* round(max(0, current_value + variation), 2), in hundredths; uniform is
\* given as its magnitude and its sign
FloatNewValue(current_value, uniform, negative) ==
    Round2(FloatAdd(current_value, FloatMul(uniform, current_value),
                    negative))

\* the natural number nearest to the non-negative num / den, when num / den
\* is not half way between two
Nearest(num, den) ==
    num \div den + (IF 2 * (num % den) > den THEN 1 ELSE 0)

\* lines 369-371: value + uniform(-0.1, 0.1) * value, floored at 0, rounded.
\* value is in hundredths and jitter, the sample of uniform, in thousandths.
\* The result is that of the float arithmetic of the code.  When the exact
\* sum is not half way between two hundredths it is at least 0.00001 from
\* the half, and the float computed, less than value * 2^-50 from the exact
\* sum, is on the same side: its rounding is that of the exact sum.
NewValue(value, jitter) ==
    IF (value * (1000 + jitter)) % 1000 # 500
    THEN Nearest(Max(0, value * (1000 + jitter)), 1000)
    ELSE FloatNewValue(FloatOfRatio(value, 100),
                       FloatOfRatio(Abs(jitter), 1000), jitter < 0)

\* samples of np.random.uniform(-0.1, 0.1), in thousandths
Jitters == {-40}

\* value of a generated device: round(np.random.uniform(0.1, 0.5), 2)
SampleValues == {10}

\* samples of np.random.uniform(-0.1, 0.1) near both ends of the interval,
\* in its middle, and two that put the exact product half way between two
\* hundredths for some value (0.10 * 0.95 and 0.10 * 1.05), where the float
\* computed is on one side of the half, in thousandths
WideJitters == {-96, -50, 0, 50, 96}

\* values of generated devices: 0.10 and 0.16 of a vibration sensor
\* (uniform(0.1, 0.5)) and 25.0 of a temperature sensor (uniform(18, 35))
WideValues == {10, 16, 2500}

GenerateDevice(status_rand, pick, value) ==
    LET status == InitialStatus(status_rand)
    IN  [status |-> status,
         health_score |-> Uniform(HealthLow(status), HealthHigh(status), pick),
         value |-> value]

DeviceSeeds ==
    [status_rand : StatusRands, pick : Picks, value : SampleValues]

generate_sample_devices(seeds) ==
    [i \in 1..NumDevices |->
        GenerateDevice(seeds[i].status_rand, seeds[i].pick, seeds[i].value)]

\* What one pass of the loop of _update_device_values draws for a device:
\* the jitter, whether np.random.random() < 0.05, the status chosen and the
\* place of the health score in its band.
NoChange == [change |-> FALSE, status |-> "normal", pick |-> "mid"]

StatusDraws ==
    {NoChange} \cup [change : {TRUE}, status : Statuses, pick : Picks]

DeviceDraws == [jitter : Jitters, resample : StatusDraws]

\* the status drawn anew without the health score that goes with it
UpdateDeviceMissingHealth(device, draw) ==
    [status |-> IF draw.resample.change THEN draw.resample.status
                ELSE device.status,
     health_score |-> device.health_score,
     value |-> NewValue(device.value, draw.jitter)]

\* body of the loop of _update_device_values for one device
UpdateDevice(device, draw) ==
    LET status == IF draw.resample.change THEN draw.resample.status
                  ELSE device.status
    IN  [status |-> status,
         health_score |->
            IF draw.resample.change
            THEN Uniform(HealthLow(status), HealthHigh(status),
                         draw.resample.pick)
            ELSE device.health_score,
         value |-> NewValue(device.value, draw.jitter)]

\* _update_device_values over the first upto devices (all of them when the
\* loop runs to its end)
_update_device_values(devices, draws, upto) ==
    [i \in 1..Len(devices) |->
        IF i <= upto THEN UpdateDevice(devices[i], draws[i]) ELSE devices[i]]

\* get_devices_data: the list it updates is the list it returns
get_devices_data(devices, draws) ==
    _update_device_values(devices, draws, Len(devices))

\* One statement of the loop of _update_device_values run by a request
\* whose position is thread.pc, on device thread.i as the device is at that
\* moment: the read of the value into current_value (line 369), the write of
\* the new value (lines 370-371), the draw of line 377, the write of the
\* status (lines 378-380), the tests of the status that the device has when
\* the test is made (lines 383 and 385) and the write of the health score of
\* the branch taken (lines 384, 386, 388).  After the last device the
\* request is at "counts" in _fetch_dashboard_data and at "return" in
\* get_devices_data.
UpdateDeviceStep(thread, devices, draw) ==
    LET i == thread.i
        next == IF i < Len(devices)
                THEN [thread EXCEPT !.pc = "value_read", !.i = i + 1,
                                    !.current_value = 0, !.band = "none"]
                ELSE [thread EXCEPT
                        !.pc = IF thread.op = "getDevices" THEN "return"
                               ELSE "count_normal",
                        !.i = 1, !.current_value = 0, !.band = "none"]
    IN  IF thread.pc = "value_read"
        THEN [thread |-> [thread EXCEPT !.pc = "value_write",
                                        !.current_value = devices[i].value],
              devices |-> devices]
        ELSE IF thread.pc = "value_write"
        THEN [thread |-> [thread EXCEPT !.pc = "draw"],
              devices |-> [devices EXCEPT ![i].value =
                              NewValue(thread.current_value, draw.jitter)]]
        ELSE IF thread.pc = "draw"
        THEN [thread |-> IF draw.resample.change
                         THEN [thread EXCEPT !.pc = "status"]
                         ELSE next,
              devices |-> devices]
        ELSE IF thread.pc = "status"
        THEN [thread |-> [thread EXCEPT !.pc = "if_normal"],
              devices |-> [devices EXCEPT ![i].status = draw.resample.status]]
        ELSE IF thread.pc = "if_normal"
        THEN [thread |-> IF devices[i].status = "normal"
                         THEN [thread EXCEPT !.pc = "health",
                                             !.band = "normal"]
                         ELSE [thread EXCEPT !.pc = "elif_warning"],
              devices |-> devices]
        ELSE IF thread.pc = "elif_warning"
        THEN [thread |-> [thread EXCEPT
                            !.pc = "health",
                            !.band = IF devices[i].status = "warning"
                                     THEN "warning" ELSE "critical"],
              devices |-> devices]
        ELSE [thread |-> next,
              devices |-> [devices EXCEPT ![i].health_score =
                              Uniform(HealthLow(thread.band),
                                      HealthHigh(thread.band),
                                      draw.resample.pick)]]

(***************************************************************************)
(* Alerts.                                                                 *)
(***************************************************************************)
\* The timestamps of the alerts are instants in microseconds, the resolution
\* of datetime.now(); the clock of the store counts minutes.
MicrosPerMinute == 60000000

\* the instant at which the clock of the store shows a minute
Instant(minute) == minute * MicrosPerMinute

\* longest time, in microseconds, from the start of the loop of
\* generate_sample_alerts to one of its readings of the clock
LoopMicros == 2

\* What generate_sample_alerts draws and reads for one alert: the age in
\* minutes (np.random.randint(1, 1440)), the template's category, the two
\* flags, and the time from the start of the loop to the reading of the
\* clock for this alert (datetime.now() of line 292), in microseconds.
AlertSeeds ==
    [offset : {1, 2}, category : {"environmental"},
     acknowledged : BOOLEAN, resolved : {FALSE}, elapsed : 0..LoopMicros]

\* the clock is read once for each alert, later for a later alert or, on a
\* clock that has not moved, at the same instant
ClockOrdered(seeds) ==
    \A i \in 1..(Len(seeds) - 1) : seeds[i].elapsed <= seeds[i + 1].elapsed

\* list.sort(key=timestamp, reverse=True) is stable: an element goes behind
\* every element whose timestamp is greater than or equal to its own.
RECURSIVE InsertDesc(_, _)
InsertDesc(sorted, alert) ==
    IF sorted = <<>> THEN <<alert>>
    ELSE IF Head(sorted).timestamp >= alert.timestamp
         THEN <<Head(sorted)>> \o InsertDesc(Tail(sorted), alert)
         ELSE <<alert>> \o sorted

RECURSIVE SortDesc(_)
SortDesc(alerts) ==
    IF alerts = <<>> THEN <<>>
    ELSE InsertDesc(SortDesc(SubSeq(alerts, 1, Len(alerts) - 1)),
                    alerts[Len(alerts)])

\* the alerts in the order generated, the uuid of the i-th being i, by a
\* loop that starts at instant t: the timestamp of an alert is the instant
\* read for it less its age (line 292)
RawAlerts(seeds, t) ==
    [i \in 1..Len(seeds) |->
        [id |-> i,
         timestamp |-> t + seeds[i].elapsed
                         - seeds[i].offset * MicrosPerMinute,
         category |-> seeds[i].category,
         acknowledged |-> seeds[i].acknowledged,
         resolved |-> seeds[i].resolved]]

\* the alerts left in the order generated
generate_sample_alertsUnsorted(seeds, t) == RawAlerts(seeds, t)

generate_sample_alerts(seeds, t) == SortDesc(RawAlerts(seeds, t))

\* Number of dimensions of np.array(alert_templates) in _add_random_alert:
\* the templates are a list of four (title, severity) tuples.
AlertTemplatesNdim == 2

\* np.random.choice(a) raises ValueError("a must be 1-dimensional") unless
\* the array made from a has one dimension.
NpChoiceRaises(ndim) == ndim # 1

\* str(uuid.uuid4()): an id no alert of the collection has
NewId(alerts) ==
    IF alerts = <<>> THEN 1
    ELSE 1 + (CHOOSE m \in {alerts[i].id : i \in 1..Len(alerts)} :
                 \A j \in 1..Len(alerts) : alerts[j].id <= m)

\* lines 453-463
NewAlert(alerts, t) ==
    [id |-> NewId(alerts), timestamp |-> t, category |-> "system",
     acknowledged |-> FALSE, resolved |-> FALSE]

\* self.sample_alerts[:50]
KeepCap(alerts) == SubSeq(alerts, 1, Min(AlertCap, Len(alerts)))

\* the insert moved before the template draw: the alert is in the list when
\* the draw raises, and the truncation is skipped
AddRandomAlertInsertFirst(alerts, t) ==
    [raised |-> TRUE, alerts |-> <<NewAlert(alerts, t)>> \o alerts]

\* _add_random_alert: the template draw of line 450 comes first
_add_random_alert(alerts, t) ==
    IF NpChoiceRaises(AlertTemplatesNdim)
    THEN [raised |-> TRUE, alerts |-> alerts]
    ELSE [raised |-> FALSE,
          alerts |-> KeepCap(<<NewAlert(alerts, t)>> \o alerts)]

\* One statement of _add_random_alert run by request `me`, whose position is
\* thread.pc and whose local variables are thread.new_alert (there once
\* thread.made is true) and thread.kept,
\* on the collection as it is at that moment: the template draw (line 450),
\* the dict of the new alert with the instant read at line 460 (lines
\* 453-463), the insert into the list (line 466), the slice of the list
\* (right-hand side of line 469) and its assignment to the attribute (line
\* 469).  uuid4 gives ids that differ between requests.
AddRandomAlertStep(thread, me, nthreads, alerts, t) ==
    IF thread.pc = "choice"
    THEN [thread |-> IF NpChoiceRaises(AlertTemplatesNdim)
                     THEN [thread EXCEPT !.pc = "done", !.raised = TRUE]
                     ELSE [thread EXCEPT !.pc = "build"],
          alerts |-> alerts]
    ELSE IF thread.pc = "build"
    THEN [thread |-> [thread EXCEPT
                        !.pc = "insert",
                        !.made = TRUE,
                        !.new_alert =
                            [NewAlert(alerts, t) EXCEPT
                                !.id = nthreads * NewId(alerts) + me]],
          alerts |-> alerts]
    ELSE IF thread.pc = "insert"
    THEN [thread |-> [thread EXCEPT !.pc = "cut"],
          alerts |-> <<thread.new_alert>> \o alerts]
    ELSE IF thread.pc = "cut"
    THEN [thread |-> [thread EXCEPT !.pc = "assign", !.kept = KeepCap(alerts)],
          alerts |-> alerts]
    ELSE [thread |-> [thread EXCEPT !.pc = "return", !.kept = <<>>],
          alerts |-> thread.kept]

\* the slice taken one alert too long
AlertsSliceOneMore(alerts, limit) ==
    SubSeq(alerts, 1, Min(limit + 1, Len(alerts)))

\* self.sample_alerts[:limit] for limit >= 0
AlertsSlice(alerts, limit) == SubSeq(alerts, 1, Min(limit, Len(alerts)))

NoValue == "no value"

\* the slice assigned to the collection as well as returned
GetAlertsStoringSlice(alerts, limit, hit, t) ==
    LET added == IF hit THEN _add_random_alert(alerts, t)
                 ELSE [raised |-> FALSE, alerts |-> alerts]
    IN  [raised |-> added.raised,
         alerts |-> IF added.raised THEN added.alerts
                    ELSE AlertsSlice(added.alerts, limit),
         ret |-> IF added.raised THEN NoValue
                 ELSE AlertsSlice(added.alerts, limit)]

\* get_alerts_data(limit); hit is np.random.random() < 0.1
get_alerts_data(alerts, limit, hit, t) ==
    LET added == IF hit THEN _add_random_alert(alerts, t)
                 ELSE [raised |-> FALSE, alerts |-> alerts]
    IN  [raised |-> added.raised,
         alerts |-> added.alerts,
         ret |-> IF added.raised THEN NoValue
                 ELSE AlertsSlice(added.alerts, limit)]

(***************************************************************************)
(* The dashboard cache.                                                    *)
(***************************************************************************)
\* self.data_cache = {}
EmptyCache == [key \in {} |-> NoValue]

CountStatus(devices, status) ==
    Cardinality({i \in 1..Len(devices) : devices[i].status = status})

\* the dict returned by the try block of _fetch_dashboard_data, with the
\* fields derived from the device statuses and the instant of computation
Snapshot(devices, t) ==
    [timestamp |-> t,
     total_devices |-> Len(devices),
     active_devices |-> CountStatus(devices, "normal"),
     warning_devices |-> CountStatus(devices, "warning"),
     critical_devices |-> CountStatus(devices, "critical")]

\* the dict returned by the except block of _fetch_dashboard_data
ErrorPayload(message, t) == [error |-> message, timestamp |-> t]

\* Where the try block of _fetch_dashboard_data fails, if it does: in the
\* loop of _update_device_values on reaching device `at`, or in a later step.
NoFault == [step |-> "none", at |-> 0]

Faults ==
    [step : {"update"}, at : 1..NumDevices]
        \cup [step : {"count", "mean", "trend"}, at : {0}]

\* the devices the loop of _update_device_values has gone through when the
\* try block ends
Reached(devices, fault) ==
    IF fault.step = "update" THEN fault.at - 1 ELSE Len(devices)

\* the computation without its except block: a failure leaves the function
FetchWithoutHandler(devices, draws, fault, t) ==
    LET reached == Reached(devices, fault)
        updated == _update_device_values(devices, draws, reached)
    IN  [raised |-> fault.step # "none",
         devices |-> updated,
         payload |-> IF fault.step = "none" THEN Snapshot(updated, t)
                     ELSE NoValue,
         fetches |-> 1]

\* _fetch_dashboard_data: the devices after the call and the dict returned.
\* Whatever fails inside the try block is caught by except Exception
\* (line 361), so the function does not raise.
_fetch_dashboard_data(devices, draws, fault, t) ==
    LET reached == Reached(devices, fault)
        updated == _update_device_values(devices, draws, reached)
    IN  [raised |-> FALSE,
         devices |-> updated,
         payload |-> IF fault.step = "none" THEN Snapshot(updated, t)
                     ELSE ErrorPayload(fault.step, t),
         fetches |-> 1]

\* the entry taken as expired from an age of exactly the TTL
CacheExpiredAtTtl(t, updated, cache) ==
    (t - updated) >= cache_ttl \/ "dashboard" \notin DOMAIN cache

\* the entry never taken as fresh
CacheExpiredAlways(t, updated, cache) == TRUE

\* the test of line 308
CacheExpired(t, updated, cache) ==
    (t - updated) > cache_ttl \/ "dashboard" \notin DOMAIN cache

\* the snapshot computed a second time for the value stored
DashboardFetchingTwice(devices, cache, updated, draws, fault, t) ==
    IF CacheExpired(t, updated, cache)
    THEN LET first == _fetch_dashboard_data(devices, draws, fault, t)
             fetched == _fetch_dashboard_data(first.devices, draws, fault, t)
         IN  [raised |-> FALSE,
              devices |-> fetched.devices,
              cache |-> [dashboard |-> fetched.payload],
              updated |-> t,
              fetches |-> first.fetches + fetched.fetches,
              ret |-> fetched.payload,
              bound |-> TRUE]
    ELSE [raised |-> FALSE, devices |-> devices, cache |-> cache,
          updated |-> updated, fetches |-> 0, ret |-> cache.dashboard,
          bound |-> FALSE]

\* a call that reuses the entry moves last_cache_update to the instant of
\* the call
DashboardTouchingStamp(devices, cache, updated, draws, fault, t) ==
    IF CacheExpired(t, updated, cache)
    THEN LET fetched == _fetch_dashboard_data(devices, draws, fault, t)
         IN  [raised |-> FALSE,
              devices |-> fetched.devices,
              cache |-> [dashboard |-> fetched.payload],
              updated |-> t,
              fetches |-> fetched.fetches,
              ret |-> fetched.payload,
              bound |-> TRUE]
    ELSE [raised |-> FALSE, devices |-> devices, cache |-> cache,
          updated |-> t, fetches |-> 0, ret |-> cache.dashboard,
          bound |-> FALSE]

\* the recomputed payload written into the dict that the key holds, where
\* there is one, instead of bound to the key
DashboardUpdatingInPlace(devices, cache, updated, draws, fault, t) ==
    IF CacheExpired(t, updated, cache)
    THEN LET fetched == _fetch_dashboard_data(devices, draws, fault, t)
         IN  [raised |-> FALSE,
              devices |-> fetched.devices,
              cache |-> [dashboard |-> fetched.payload],
              updated |-> t,
              fetches |-> fetched.fetches,
              ret |-> fetched.payload,
              bound |-> "dashboard" \notin DOMAIN cache]
    ELSE [raised |-> FALSE, devices |-> devices, cache |-> cache,
          updated |-> updated, fetches |-> 0, ret |-> cache.dashboard,
          bound |-> FALSE]

\* an error payload returned to the caller but kept out of the cache
DashboardSkippingErrors(devices, cache, updated, draws, fault, t) ==
    IF CacheExpired(t, updated, cache)
    THEN LET fetched == _fetch_dashboard_data(devices, draws, fault, t)
             failed == "error" \in DOMAIN fetched.payload
         IN  [raised |-> FALSE,
              devices |-> fetched.devices,
              cache |-> IF failed THEN cache
                        ELSE [dashboard |-> fetched.payload],
              updated |-> IF failed THEN updated ELSE t,
              fetches |-> fetched.fetches,
              ret |-> fetched.payload,
              bound |-> ~failed]
    ELSE [raised |-> FALSE, devices |-> devices, cache |-> cache,
          updated |-> updated, fetches |-> 0, ret |-> cache.dashboard,
          bound |-> FALSE]

\* get_dashboard_data called at instant t; bound tells that the key
\* 'dashboard' was bound to a new dict (line 309 assigns the dict that
\* _fetch_dashboard_data built; it does not write into the dict that was there)
get_dashboard_data(devices, cache, updated, draws, fault, t) ==
    IF CacheExpired(t, updated, cache)
    THEN LET fetched == _fetch_dashboard_data(devices, draws, fault, t)
         IN  IF fetched.raised
             THEN [raised |-> TRUE, devices |-> fetched.devices,
                   cache |-> cache, updated |-> updated,
                   fetches |-> fetched.fetches, ret |-> NoValue,
                   bound |-> FALSE]
             ELSE [raised |-> FALSE,
                   devices |-> fetched.devices,
                   cache |-> [dashboard |-> fetched.payload],
                   updated |-> t,
                   fetches |-> fetched.fetches,
                   ret |-> fetched.payload,
                   bound |-> TRUE]
    ELSE [raised |-> FALSE, devices |-> devices, cache |-> cache,
          updated |-> updated, fetches |-> 0, ret |-> cache.dashboard,
          bound |-> FALSE]

\* One statement of a recomputing get_dashboard_data after the loop of
\* _update_device_values, run by a request whose position is thread.pc: one
\* iteration of the list comprehension of a count, which examines device
\* thread.i as the device is at that moment and goes to the next device or,
\* after the last one, to the next count (lines 322, 323, 324), the dict of
\* the snapshot (lines 342-359), its assignment to the key (line 309) and
\* the assignment of the instant read at line 305 to last_cache_update
\* (line 310).
RecomputeStep(thread, devices, cache, updated, t) ==
    LET i == thread.i
        more == i < Len(devices)
        after == IF more THEN i + 1 ELSE 1
        found(status) == IF devices[i].status = status THEN 1 ELSE 0
    IN
    IF thread.pc = "count_normal"
    THEN [thread |-> [thread EXCEPT
                        !.pc = IF more THEN "count_normal"
                               ELSE "count_warning",
                        !.i = after,
                        !.active = thread.active + found("normal")],
          cache |-> cache, updated |-> updated]
    ELSE IF thread.pc = "count_warning"
    THEN [thread |-> [thread EXCEPT
                        !.pc = IF more THEN "count_warning"
                               ELSE "count_critical",
                        !.i = after,
                        !.warning = thread.warning + found("warning")],
          cache |-> cache, updated |-> updated]
    ELSE IF thread.pc = "count_critical"
    THEN [thread |-> [thread EXCEPT
                        !.pc = IF more THEN "count_critical" ELSE "build",
                        !.i = after,
                        !.critical = thread.critical + found("critical")],
          cache |-> cache, updated |-> updated]
    ELSE IF thread.pc = "build"
    THEN [thread |-> [thread EXCEPT
                        !.pc = "store",
                        !.active = 0, !.warning = 0, !.critical = 0,
                        !.fetched = [timestamp |-> t,
                                     total_devices |-> Len(devices),
                                     active_devices |-> thread.active,
                                     warning_devices |-> thread.warning,
                                     critical_devices |-> thread.critical]],
          cache |-> cache, updated |-> updated]
    ELSE IF thread.pc = "store"
    THEN [thread |-> [thread EXCEPT !.pc = "stamp", !.fetched = NoValue],
          cache |-> [dashboard |-> thread.fetched], updated |-> updated]
    ELSE [thread |-> [thread EXCEPT !.pc = "return", !.tnow = DatetimeMin],
          cache |-> cache, updated |-> thread.tnow]

(***************************************************************************)
(* Analytics and system status.                                            *)
(***************************************************************************)
SensorKinds == {"temperature", "pressure", "vibration", "power", "humidity"}

\* get_analytics_data: per sensor kind, the lengths of labels and values
get_analytics_data ==
    [kind \in SensorKinds |->
        [labels |-> SeriesPoints, values |-> SeriesPoints]]

\* get_system_status: the field read from the store
get_system_status(devices) == [active_connections |-> Len(devices)]

(***************************************************************************)
(* State machine.  `last` describes the step taken last: the operation,    *)
(* its argument, whether it raised, what it returned, how many times the   *)
(* snapshot was computed, the failure injected and whether a device status *)
(* was drawn anew, and what a get_dashboard_data call found on entry:      *)
(* whether the cache held a dashboard entry and the age now -              *)
(* last_cache_update.  `last_dash` keeps what the latest                   *)
(* get_dashboard_data call returned, with the instant its payload was      *)
(* computed at.  `held` is a payload that a caller of get_dashboard_data   *)
(* has kept: its fields as the caller reads them now, and whether the dict *)
(* it refers to is the one the cache refers to.  `threads` holds the       *)
(* requests that the threaded server is running, each with its position in *)
(* its handler and its local variables; a store called by one request at a *)
(* time leaves them all idle.                                              *)
(***************************************************************************)
Observed(op, limit, raised, ret, fetches, fault, resampled) ==
    [op |-> op, limit |-> limit, raised |-> raised, ret |-> ret,
     fetches |-> fetches, fault |-> fault, resampled |-> resampled,
     present |-> FALSE, age |-> 0]

ObservedDashboard(raised, ret, fetches, fault, resampled, present, age) ==
    [op |-> "getDashboardData", limit |-> 0, raised |-> raised, ret |-> ret,
     fetches |-> fetches, fault |-> fault, resampled |-> resampled,
     present |-> present, age |-> age]

NoDash == [called |-> FALSE, ret |-> NoValue, computed_at |-> DatetimeMin]

NoHeld == [kept |-> FALSE, cached |-> FALSE, fields |-> NoValue,
           handed |-> NoValue]

\* what a caller reads in the payload it keeps, after a later
\* get_dashboard_data call: a call that binds a new dict to the key leaves
\* the caller with the dict it has, a call that writes into the dict of the
\* key writes into the caller's dict while the two are the same
HeldAfter(h, call) ==
    IF ~h.kept \/ call.raised \/ call.fetches = 0 THEN h
    ELSE IF call.bound THEN [h EXCEPT !.cached = FALSE]
    ELSE IF h.cached THEN [h EXCEPT !.fields = call.cache.dashboard]
    ELSE h

Threads == 1..NumThreads

Idle == [pc |-> "idle"]

Resampled(draws, upto) == \E i \in 1..upto : draws[i].resample.change

\* __init__ and initialize_sample_data, at instant StartTime
\* the loop of generate_sample_alerts starts early enough for the
\* construction to have ended when the clock of the store shows StartTime
LoopStart == Instant(StartTime) - LoopMicros

InitWith(deviceSeeds, alertSeeds) ==
    /\ now = StartTime
    /\ sample_devices = generate_sample_devices(deviceSeeds)
    /\ sample_alerts = generate_sample_alerts(alertSeeds, LoopStart)
    /\ data_cache = EmptyCache
    /\ last_cache_update = DatetimeMin
    /\ last = Observed("init", 0, FALSE, NoValue, 0, "none", FALSE)
    /\ last_dash = NoDash
    /\ held = NoHeld
    /\ threads = [t \in Threads |-> Idle]

\* one draw of the alerts, under a clock that moves between the readings of
\* the loop, used where the devices are what varies
FixedAlertSeeds ==
    [i \in 1..NumSampleAlerts |->
        [offset |-> 1 + (i % 2), category |-> "environmental",
         acknowledged |-> FALSE, resolved |-> FALSE,
         elapsed |-> Min(i - 1, LoopMicros)]]

\* one draw of the devices, used where the alerts are what varies
FixedDeviceSeeds ==
    [i \in 1..NumDevices |-> [status_rand |-> 16, pick |-> "mid", value |-> 10]]

Init ==
    \E deviceSeeds \in [1..NumDevices -> DeviceSeeds] :
        InitWith(deviceSeeds, FixedAlertSeeds)

\* the devices generated with values of several sizes, all normal
InitJitter ==
    \E values \in [1..NumDevices -> WideValues] :
        InitWith([i \in 1..NumDevices |->
                    [status_rand |-> 16, pick |-> "mid", value |-> values[i]]],
                 FixedAlertSeeds)

InitAlerts ==
    \E alertSeeds \in [1..NumSampleAlerts -> AlertSeeds] :
        /\ ClockOrdered(alertSeeds)
        /\ InitWith(FixedDeviceSeeds, alertSeeds)

\* datetime.now() read later than before
Tick ==
    /\ now < StartTime + Horizon
    /\ now' = now + 1
    /\ last' = Observed("tick", 0, FALSE, NoValue, 0, "none", FALSE)
    /\ UNCHANGED <<sample_devices, sample_alerts, data_cache,
                   last_cache_update, last_dash, held, threads>>

GetDevicesData ==
    \E draws \in [1..NumDevices -> DeviceDraws] :
        /\ sample_devices' = get_devices_data(sample_devices, draws)
        /\ last' = Observed("getDevices", 0, FALSE, sample_devices', 0,
                            "none", Resampled(draws, NumDevices))
        /\ UNCHANGED <<sample_alerts, data_cache, last_cache_update, now,
                       last_dash, held, threads>>

\* get_devices_data over the wider samples of the jitter (the same sample
\* for every device of a call, no status drawn anew), at most one call
\* between two readings of the clock
GetDevicesDataJitter ==
    /\ last.op # "getDevices"
    /\ \E jitter \in WideJitters :
          LET draws == [i \in 1..NumDevices |->
                          [jitter |-> jitter, resample |-> NoChange]]
          IN  /\ sample_devices' = get_devices_data(sample_devices, draws)
              /\ last' = Observed("getDevices", 0, FALSE, sample_devices', 0,
                                  "none", FALSE)
    /\ UNCHANGED <<sample_alerts, data_cache, last_cache_update, now,
                   last_dash, held, threads>>

DashboardCall(draws, fault, keep) ==
    LET call == get_dashboard_data(sample_devices, data_cache,
                                   last_cache_update, draws, fault, now)
    IN  /\ sample_devices' = call.devices
        /\ data_cache' = call.cache
        /\ last_cache_update' = call.updated
        /\ last' = ObservedDashboard(call.raised, call.ret, call.fetches,
                                     fault.step,
                                     /\ call.fetches > 0
                                     /\ Resampled(draws,
                                            Reached(sample_devices, fault)),
                                     "dashboard" \in DOMAIN data_cache,
                                     now - last_cache_update)
        /\ last_dash' = IF call.raised THEN last_dash
                        ELSE [called |-> TRUE, ret |-> call.ret,
                              computed_at |-> call.updated]
        /\ held' = IF keep
                   THEN [kept |-> TRUE, cached |-> TRUE, fields |-> call.ret,
                         handed |-> call.ret]
                   ELSE HeldAfter(held, call)
        /\ UNCHANGED <<sample_alerts, now, threads>>

\* the draws of _update_device_values are made in a recomputation only; a
\* call that reuses the entry draws nothing
DrawsOfCall ==
    IF CacheExpired(now, last_cache_update, data_cache)
    THEN [1..NumDevices -> DeviceDraws]
    ELSE {[i \in 1..NumDevices |-> [jitter |-> 0, resample |-> NoChange]]}

GetDashboardData ==
    \E draws \in DrawsOfCall : DashboardCall(draws, NoFault, FALSE)

\* get_dashboard_data called by a caller that keeps the payload it is given
GetDashboardDataKeeping ==
    /\ ~held.kept
    /\ \E draws \in DrawsOfCall : DashboardCall(draws, NoFault, TRUE)

\* get_dashboard_data with a failure inside the recomputation
GetDashboardDataFailing ==
    /\ CacheExpired(now, last_cache_update, data_cache)
    /\ \E draws \in [1..NumDevices -> DeviceDraws], fault \in Faults :
          DashboardCall(draws, fault, FALSE)

GetAlertsData ==
    \E limit \in 0..MaxLimit, hit \in BOOLEAN :
        LET call == get_alerts_data(sample_alerts, limit, hit,
                                    Instant(now))
        IN  /\ sample_alerts' = call.alerts
            /\ last' = Observed("getAlerts", limit, call.raised, call.ret, 0,
                                "none", FALSE)
            /\ UNCHANGED <<sample_devices, data_cache, last_cache_update,
                           now, last_dash, held, threads>>

GetAnalyticsData ==
    /\ last' = Observed("getAnalytics", 0, FALSE, get_analytics_data, 0,
                        "none", FALSE)
    /\ UNCHANGED <<sample_devices, sample_alerts, data_cache,
                   last_cache_update, now, last_dash, held, threads>>

GetSystemStatus ==
    /\ last' = Observed("getSystemStatus", 0, FALSE,
                        get_system_status(sample_devices), 0, "none", FALSE)
    /\ UNCHANGED <<sample_devices, sample_alerts, data_cache,
                   last_cache_update, now, last_dash, held, threads>>

Next ==
    \/ Tick
    \/ GetDevicesData
    \/ GetDashboardData
    \/ GetAlertsData
    \/ GetAnalyticsData
    \/ GetSystemStatus

\* the store under calls made one at a time
Spec == Init /\ [][Next]_vars

NextAlerts == GetAlertsData

\* the alert collection under get_alerts_data calls, over the draws of
\* generate_sample_alerts
SpecAlerts == InitAlerts /\ [][NextAlerts]_vars

NextFailing ==
    \/ Tick
    \/ GetDashboardData
    \/ GetDashboardDataFailing

\* the dashboard cache when a recomputation can fail inside its try block
SpecFailing == Init /\ [][NextFailing]_vars

(***************************************************************************)
(* Requests served at the same time.  run() starts the server with         *)
(* threaded=True: every request runs its handler in a thread of its own,   *)
(* on the one store, and the threads are interleaved between statements.   *)
(***************************************************************************)
\* the requests that are inside a handler
Running == {t \in Threads : threads[t].pc \notin {"idle", "done"}}

\* request t enters its handler: it overlaps every request that is running
Entering(t, thread) ==
    [u \in Threads |->
        IF u = t THEN [thread EXCEPT !.overlap = (Running # {})]
        ELSE IF u \in Running THEN [threads[u] EXCEPT !.overlap = TRUE]
        ELSE threads[u]]

\* one draw of the devices and of the alerts
InitRace == InitWith(FixedDeviceSeeds, FixedAlertSeeds)

\* get_alerts_data entered by request t: the draw of line 436
StartGetAlerts(t) ==
    /\ threads[t].pc = "idle"
    /\ \E limit \in {0, MaxLimit}, hit \in BOOLEAN :
          threads' = Entering(t, [pc |-> IF hit THEN "choice" ELSE "return",
                                  op |-> "getAlerts", limit |-> limit,
                                  hit |-> hit, raised |-> FALSE,
                                  overlap |-> FALSE, made |-> FALSE,
                                  new_alert |-> NoValue,
                                  kept |-> <<>>])
    /\ UNCHANGED <<sample_devices, sample_alerts, data_cache,
                   last_cache_update, now, last, last_dash, held>>

\* request t runs its next statement of _add_random_alert
AddAlertStep(t) ==
    /\ threads[t].pc \in {"choice", "build", "insert", "cut", "assign"}
    /\ LET step == AddRandomAlertStep(threads[t], t, NumThreads,
                                      sample_alerts, Instant(now))
       IN  /\ threads' = [threads EXCEPT ![t] = step.thread]
           /\ sample_alerts' = step.alerts
           /\ last' = IF step.thread.raised
                      THEN Observed("getAlerts", threads[t].limit, TRUE,
                                    NoValue, 0, "none", FALSE)
                      ELSE last
    /\ UNCHANGED <<sample_devices, data_cache, last_cache_update, now,
                   last_dash, held>>

\* request t returns self.sample_alerts[:limit] (line 439)
ReturnAlerts(t) ==
    /\ threads[t].pc = "return"
    /\ threads' = [threads EXCEPT ![t].pc = "done"]
    /\ last' = Observed("getAlerts", threads[t].limit, FALSE,
                        AlertsSlice(sample_alerts, threads[t].limit), 0,
                        "none", FALSE)
    /\ UNCHANGED <<sample_devices, sample_alerts, data_cache,
                   last_cache_update, now, last_dash, held>>

\* the thread of request t ends and is there for another request
EndRequest(t) ==
    /\ threads[t].pc = "done"
    /\ threads' = [threads EXCEPT ![t] = Idle]
    /\ UNCHANGED <<sample_devices, sample_alerts, data_cache,
                   last_cache_update, now, last, last_dash, held>>

NextAlertsRace ==
    \/ Tick
    \/ \E t \in Threads : StartGetAlerts(t)
    \/ \E t \in Threads : AddAlertStep(t)
    \/ \E t \in Threads : ReturnAlerts(t)
    \/ \E t \in Threads : EndRequest(t)

\* get_alerts_data requests served at the same time
SpecAlertsRace == InitRace /\ [][NextAlertsRace]_vars

\* a request as it enters get_devices_data or get_dashboard_data
Entered(op, pc, t) ==
    [pc |-> pc, op |-> op, overlap |-> FALSE, i |-> 1, current_value |-> 0,
     band |-> "none", tnow |-> t, active |-> 0, warning |-> 0,
     critical |-> 0, fetched |-> NoValue, recomputes |-> FALSE]

UpdatePcs ==
    {"value_read", "value_write", "draw", "status", "if_normal",
     "elif_warning", "health"}

RecomputePcs ==
    {"count_normal", "count_warning", "count_critical", "build", "store",
     "stamp"}

\* get_devices_data entered by request t
StartGetDevices(t) ==
    /\ threads[t].pc = "idle"
    /\ threads' = Entering(t, Entered("getDevices", "value_read",
                                      DatetimeMin))
    /\ UNCHANGED <<sample_devices, sample_alerts, data_cache,
                   last_cache_update, now, last, last_dash, held>>

\* get_dashboard_data entered by request t: the clock is read (line 305)
StartGetDashboard(t) ==
    /\ threads[t].pc = "idle"
    /\ threads' = Entering(t, Entered("getDashboardData", "check", now))
    /\ UNCHANGED <<sample_devices, sample_alerts, data_cache,
                   last_cache_update, now, last, last_dash, held>>

\* request t tests the cache (line 308) and goes on to recompute or to return
CheckCache(t) ==
    /\ threads[t].pc = "check"
    /\ threads' =
          [threads EXCEPT ![t] =
              IF CacheExpired(threads[t].tnow, last_cache_update, data_cache)
              THEN [threads[t] EXCEPT !.pc = "value_read",
                                      !.recomputes = TRUE]
              ELSE [threads[t] EXCEPT !.pc = "return",
                                      !.tnow = DatetimeMin]]
    /\ UNCHANGED <<sample_devices, sample_alerts, data_cache,
                   last_cache_update, now, last, last_dash, held>>

\* request t runs its next statement of the loop of _update_device_values
UpdateStep(t) ==
    /\ threads[t].pc \in UpdatePcs
    /\ \E draw \in DeviceDraws :
          LET step == UpdateDeviceStep(threads[t], sample_devices, draw)
          IN  /\ threads' = [threads EXCEPT ![t] = step.thread]
              /\ sample_devices' = step.devices
    /\ UNCHANGED <<sample_alerts, data_cache, last_cache_update, now, last,
                   last_dash, held>>

\* request t runs its next statement of the recomputation after the loop
FetchStep(t) ==
    /\ threads[t].pc \in RecomputePcs
    /\ LET step == RecomputeStep(threads[t], sample_devices, data_cache,
                                 last_cache_update, now)
       IN  /\ threads' = [threads EXCEPT ![t] = step.thread]
           /\ data_cache' = step.cache
           /\ last_cache_update' = step.updated
    /\ UNCHANGED <<sample_devices, sample_alerts, now, last, last_dash, held>>

\* request t returns the device list (line 431) or the dict of the key
\* (line 312)
ReturnValue(t) ==
    /\ threads[t].pc = "return"
    /\ threads[t].op \in {"getDevices", "getDashboardData"}
    /\ threads' = [threads EXCEPT ![t].pc = "done"]
    /\ UNCHANGED <<sample_devices, sample_alerts, data_cache,
                   last_cache_update, now, last, last_dash, held>>

NextRace ==
    \/ \E t \in Threads : StartGetDevices(t)
    \/ \E t \in Threads : StartGetDashboard(t)
    \/ \E t \in Threads : CheckCache(t)
    \/ \E t \in Threads : UpdateStep(t)
    \/ \E t \in Threads : FetchStep(t)
    \/ \E t \in Threads : ReturnValue(t)

\* get_devices_data and get_dashboard_data requests served at the same time
\* on the store as constructed, one request a thread, within one reading of
\* the clock
SpecRace == InitRace /\ [][NextRace]_vars

NextJitter ==
    \/ Tick
    \/ GetDevicesDataJitter

\* the values of the devices under get_devices_data calls
SpecJitter == InitJitter /\ [][NextJitter]_vars

NextHeld ==
    \/ Tick
    \/ GetDevicesData
    \/ GetDashboardData
    \/ GetDashboardDataKeeping

\* the store when one caller keeps the payload that get_dashboard_data gave
\* it while the devices go on being updated and the snapshot recomputed
SpecHeld == InitRace /\ [][NextHeld]_vars

(***************************************************************************)
(* Properties.                                                             *)
(***************************************************************************)
\* the banding policy: the health scores a status allows
Band(status) ==
    IF status = "normal" THEN 80..100
    ELSE IF status = "warning" THEN 50..80
    ELSE 10..50

\* C1: under store operations executed one at a time, every device has a
\* status among normal, warning and critical and a health_score inside the
\* band of that status.
C1_StatusHealthBand ==
    \A i \in 1..Len(sample_devices) :
        /\ sample_devices[i].status \in {"normal", "warning", "critical"}
        /\ sample_devices[i].health_score \in Band(sample_devices[i].status)

\* a get_devices_data call drew a status anew and a device is critical
C1_Witness ==
    /\ last.op = "getDevices"
    /\ last.resampled
    /\ \E i \in 1..Len(sample_devices) : sample_devices[i].status = "critical"

\* C2: after a get_alerts_data call returns, the alert collection holds at
\* most 50 alerts.
C2_AtMostFifty ==
    (last.op = "getAlerts" /\ ~last.raised) => Len(sample_alerts) <= 50

\* a get_alerts_data call returned the whole, non-empty collection
C2_Witness ==
    /\ last.op = "getAlerts"
    /\ ~last.raised
    /\ Len(sample_alerts) > 0
    /\ last.ret = sample_alerts

\* C3: the alert collection is sorted by timestamp descending, at startup
\* and after every get_alerts_data call.
C3_SortedDescending ==
    \A i \in 1..(Len(sample_alerts) - 1) :
        sample_alerts[i].timestamp >= sample_alerts[i + 1].timestamp

\* get_alerts_data was called on a collection whose newest alert was
\* generated after its oldest one: the sort at startup moved it to the front
C3_Witness ==
    /\ last.op = "getAlerts"
    /\ Len(sample_alerts) >= 2
    /\ sample_alerts[1].timestamp > sample_alerts[Len(sample_alerts)].timestamp
    /\ sample_alerts[1].id > sample_alerts[Len(sample_alerts)].id

\* C4: a get_dashboard_data call made less than the TTL after the
\* recomputation whose payload the previous get_dashboard_data call returned
\* returns that same payload, whatever was called in between.
C4_SamePayloadInWindow ==
    [][(/\ last'.op = "getDashboardData"
        /\ last_dash.called
        /\ now' - last_dash.computed_at < 2)
       => (~last'.raised /\ last'.ret = last_dash.ret)]_vars

\* a second get_dashboard_data call inside the window returned the payload
\* of the first although the devices have changed since it was computed
C4_Witness ==
    /\ last.op = "getDashboardData"
    /\ last.present
    /\ last.age < 2
    /\ last.ret = last_dash.ret
    /\ last.ret.active_devices # CountStatus(sample_devices, "normal")

\* C5 as stated: a get_dashboard_data call made when the age of the entry is
\* equal to or greater than the TTL recomputes the payload and replaces the
\* entry.
C5_RecomputesFromTtl ==
    (last.op = "getDashboardData" /\ last.present /\ last.age >= 2)
        => /\ last.fetches >= 1
           /\ last_cache_update = now
           /\ data_cache.dashboard = Snapshot(sample_devices, now)

\* C5 amended: a get_dashboard_data call made when the age of the entry is
\* greater than the TTL recomputes the payload and replaces the entry; a
\* call made at an age up to and including the TTL returns the cached payload
\* and leaves the entry as it is.
C5_RecomputesAfterTtl ==
    [][(last'.op = "getDashboardData" /\ "dashboard" \in DOMAIN data_cache)
       => IF now - last_cache_update > 2
          THEN /\ last'.fetches >= 1
               /\ last_cache_update' = now
               /\ data_cache' = [dashboard |-> Snapshot(sample_devices', now)]
               /\ last'.ret = data_cache'.dashboard
          ELSE /\ last'.fetches = 0
               /\ last'.ret = data_cache.dashboard
               /\ UNCHANGED <<data_cache, last_cache_update>>]_vars

\* a call at an age of exactly the TTL returned the cached payload
C5_Witness ==
    /\ last.op = "getDashboardData"
    /\ last.present
    /\ last.age = 2
    /\ last.fetches = 0
    /\ now - last_cache_update = 2

\* C6: a get_dashboard_data call that finds the entry absent or stale
\* computes the snapshot exactly once, and a call that finds it fresh does
\* not compute it.
C6_OneRecomputation ==
    [][(last'.op = "getDashboardData")
       => last'.fetches =
            IF \/ "dashboard" \notin DOMAIN data_cache
               \/ now - last_cache_update > 2
            THEN 1 ELSE 0]_vars

\* a call found an entry older than the TTL and computed the snapshot once
C6_Witness ==
    /\ last.op = "getDashboardData"
    /\ last.present
    /\ last.age > 2
    /\ last.fetches = 1

\* C7: get_alerts_data(limit) returns the first min(limit, size) alerts of
\* the collection, which are its most recent ones, newest first: nothing for
\* limit 0, the whole collection for a limit above its size.
C7_MostRecentPrefix ==
    (last.op = "getAlerts" /\ ~last.raised)
        => /\ Len(last.ret) =
                IF last.limit < Len(sample_alerts) THEN last.limit
                ELSE Len(sample_alerts)
           /\ \A i \in 1..Len(last.ret) : last.ret[i] = sample_alerts[i]
           /\ \A i \in 1..Len(last.ret) :
                \A j \in (Len(last.ret) + 1)..Len(sample_alerts) :
                    last.ret[i].timestamp >= sample_alerts[j].timestamp
           /\ \A i \in 1..(Len(last.ret) - 1) :
                last.ret[i].timestamp >= last.ret[i + 1].timestamp

\* a call with a positive limit below the size returned alerts that are all
\* strictly more recent than the first alert left out
C7_Witness ==
    /\ last.op = "getAlerts"
    /\ ~last.raised
    /\ last.limit > 0
    /\ last.limit < Len(sample_alerts)
    /\ last.ret[last.limit].timestamp
          > sample_alerts[last.limit + 1].timestamp

\* C8: no store operation raises to its caller.
C8_NeverRaises == ~last.raised

\* C9: a get_dashboard_data call whose recomputation fails does not raise
\* and returns a payload made of the fields error and timestamp.
C9_ErrorPayload ==
    (last.op = "getDashboardData" /\ last.fault # "none")
        => /\ ~last.raised
           /\ DOMAIN last.ret = {"error", "timestamp"}
           /\ last.ret.timestamp = now

\* the loop over the devices failed on the second device, after the first
\* one was given a new status, and the call returned the error payload
C9_Witness ==
    /\ last.op = "getDashboardData"
    /\ last.fault = "update"
    /\ last.resampled
    /\ DOMAIN last.ret = {"error", "timestamp"}

\* C10: a get_alerts_data call leaves the collection as it is or puts one
\* new alert (category system, not acknowledged, not resolved) in front of
\* it; the alerts already present keep their fields and their order, and one
\* is dropped only from a collection of 50, the dropped one being the last
\* and oldest.
C10_PrependAndCap ==
    [][(last'.op = "getAlerts")
       => \/ sample_alerts' = sample_alerts
          \/ /\ Len(sample_alerts') >= 1
             /\ sample_alerts'[1].category = "system"
             /\ ~sample_alerts'[1].acknowledged
             /\ ~sample_alerts'[1].resolved
             /\ \A j \in 1..Len(sample_alerts) :
                    sample_alerts'[1].id # sample_alerts[j].id
             /\ \A i \in 2..Len(sample_alerts') :
                    sample_alerts'[i] = sample_alerts[i - 1]
             /\ \/ Len(sample_alerts') = Len(sample_alerts) + 1
                \/ /\ Len(sample_alerts) = 50
                   /\ Len(sample_alerts') = 50
                   /\ \A j \in 1..50 :
                        sample_alerts[50].timestamp
                            <= sample_alerts[j].timestamp]_vars

\* a get_alerts_data call whose draw asked for a new alert has ended and the
\* collection generated at startup is still there
C10_Witness ==
    /\ last.op = "getAlerts"
    /\ last.raised
    /\ Len(sample_alerts) = NumSampleAlerts

\* C11: in the snapshot that a recomputation stores, the counts of normal,
\* warning and critical devices add up to total_devices, each device being
\* counted once, also when a get_devices_data call of another request runs
\* at the same time as the recomputation.
C11_CountsPartition ==
    ("dashboard" \in DOMAIN data_cache
        /\ "error" \notin DOMAIN data_cache.dashboard)
        => data_cache.dashboard.active_devices
             + data_cache.dashboard.warning_devices
             + data_cache.dashboard.critical_devices
           = data_cache.dashboard.total_devices

\* C12: whenever no get_devices_data or get_dashboard_data call is in
\* progress, every device has a health_score inside the band of its status,
\* also after calls that ran at the same time and were interleaved between
\* statements on the same device.
C12_BandWhenIdle ==
    (Running = {})
        => \A i \in 1..Len(sample_devices) :
              sample_devices[i].health_score \in Band(sample_devices[i].status)

\* request t is inside the recomputation of get_dashboard_data
Recomputing(t) ==
    /\ threads[t].pc \in UpdatePcs \cup RecomputePcs
    /\ threads[t].op = "getDashboardData"

\* C15: of the get_dashboard_data calls that run at the same time and find
\* the entry absent or stale, at most one recomputes the snapshot and
\* updates the devices.
C15_OneRecomputesAtATime ==
    \A t, u \in Threads : (Recomputing(t) /\ Recomputing(u)) => t = u

\* the requests of threads t and u ran at the same time, both drew a new
\* alert at line 436, and both have ended
BothDrewAnAlert(t, u) ==
    /\ t # u
    /\ threads[t].pc = "done" /\ threads[u].pc = "done"
    /\ threads[t].op = "getAlerts" /\ threads[u].op = "getAlerts"
    /\ threads[t].hit /\ threads[u].hit
    /\ threads[t].overlap /\ threads[u].overlap

\* the alert collection is sorted by timestamp descending whenever no
\* get_alerts_data call is in progress
SortedWhenIdle ==
    (Running = {})
        => \A i \in 1..(Len(sample_alerts) - 1) :
              sample_alerts[i].timestamp >= sample_alerts[i + 1].timestamp

Present(t) ==
    /\ threads[t].made
    /\ \E i \in 1..Len(sample_alerts) : sample_alerts[i] = threads[t].new_alert

\* the lost update: both requests made an alert, one of the two is in the
\* collection and the other is not, in a collection of fewer than 49 alerts
LostUpdate(t, u) ==
    /\ BothDrewAnAlert(t, u)
    /\ threads[t].made /\ threads[u].made
    /\ Present(t) /\ ~Present(u)
    /\ Len(sample_alerts) < 49

\* C14: two get_alerts_data calls that run at the same time and both draw a
\* new alert each make one and insert it in front of the collection, so
\* that the interleaving of their insert and truncate statements decides
\* whether both new alerts stay or one of the two is lost.
C14_LostUpdatePossible ==
    \A t, u \in Threads :
        BothDrewAnAlert(t, u) => (threads[t].made /\ threads[u].made)

\* what the code does instead: a call that drew a new alert makes none, so
\* that the collection stays the one generated at startup and no state is a
\* lost update
NoAlertEverAdded ==
    /\ \A t \in Threads : threads[t].pc # "idle" => ~threads[t].made
    /\ sample_alerts = generate_sample_alerts(FixedAlertSeeds, LoopStart)
    /\ \A t, u \in Threads : ~LostUpdate(t, u)

\* C16: data_cache and last_cache_update change only in a get_dashboard_data
\* call that computes the snapshot: get_devices_data, get_alerts_data,
\* get_analytics_data, get_system_status and the passing of time leave both
\* as they are, and a get_dashboard_data call that finds an entry younger
\* than the TTL leaves the devices, the alerts and both as they are.
C16_CacheFrame ==
    [][/\ (data_cache' # data_cache \/ last_cache_update' # last_cache_update)
            => (last'.op = "getDashboardData" /\ last'.fetches >= 1)
       /\ (last'.op \in {"getDevices", "getAlerts", "getAnalytics",
                         "getSystemStatus", "tick"})
            => UNCHANGED <<data_cache, last_cache_update>>
       /\ (/\ last'.op = "getDashboardData"
           /\ "dashboard" \in DOMAIN data_cache
           /\ now - last_cache_update < 2)
            => UNCHANGED <<sample_devices, sample_alerts, data_cache,
                           last_cache_update>>]_vars

\* a get_devices_data call gave a device a new status while the cache held a
\* payload, and the payload still counts the devices as they were
C16_Witness ==
    /\ last.op = "getDevices"
    /\ last.resampled
    /\ "dashboard" \in DOMAIN data_cache
    /\ last_cache_update = StartTime
    /\ data_cache.dashboard.active_devices
          # CountStatus(sample_devices, "normal")

\* C17: every device has a value of 0 or more in every state, and a
\* get_devices_data call gives each device the hundredth nearest to a value
\* that is 0 or more and at most 10% of the value before away from it; a
\* device at 25.0 is between 22.5 and 27.5 after the call.
C17_ValueJitter ==
    /\ [](\A i \in 1..Len(sample_devices) : sample_devices[i].value >= 0)
    /\ [][(last'.op = "getDevices")
          => \A i \in 1..Len(sample_devices) :
                LET before == sample_devices[i].value
                    after == sample_devices'[i].value
                IN  /\ after >= 0
                    /\ 1000 * after >= 900 * before - 500
                    /\ 1000 * after <= 1100 * before + 500
                    /\ before = 2500 => after \in 2250..2750]_vars

\* the first call took a device from 25.0 to 27.4 and another from 0.16 to
\* 0.18, the hundredth nearest to 0.17536
C17_Witness ==
    /\ last.op = "getDevices"
    /\ now = StartTime
    /\ \E i, j \in 1..Len(sample_devices) :
          /\ sample_devices[i].value = 2740
          /\ sample_devices[j].value = 18

\* C18: the payload that a get_dashboard_data call handed to its caller
\* keeps the values of its fields whatever the store is called for
\* afterwards; a later recomputation puts another payload in the cache.
C18_SnapshotKept ==
    held.kept => held.fields = held.handed

\* the cache holds a payload computed after the one the caller keeps
C18_Witness ==
    /\ held.kept
    /\ ~held.cached
    /\ "timestamp" \in DOMAIN data_cache.dashboard
    /\ data_cache.dashboard.timestamp > held.handed.timestamp
    /\ held.fields = held.handed

\* C19: a get_dashboard_data call whose recomputation fails stores the error
\* payload it returns in the cache and sets last_cache_update to the instant
\* of the call; a get_dashboard_data call that finds an entry younger than
\* the TTL, an error payload as any other, returns it, computes nothing and
\* leaves last_cache_update as it is.
C19_ErrorPayloadCached ==
    /\ (last.op = "getDashboardData" /\ last.fault # "none")
            => /\ "error" \in DOMAIN last.ret
               /\ "dashboard" \in DOMAIN data_cache
               /\ data_cache.dashboard = last.ret
               /\ last_cache_update = now
    /\ (last.op = "getDashboardData" /\ last.present /\ last.age < 2)
            => /\ last.fetches = 0
               /\ last.ret = data_cache.dashboard
               /\ last_cache_update = now - last.age
               /\ last_dash.ret = last.ret

\* a call made one minute after a failed recomputation returned the error
\* payload from the cache
C19_Witness ==
    /\ last.op = "getDashboardData"
    /\ last.fetches = 0
    /\ last.age = 1
    /\ "error" \in DOMAIN last.ret
    /\ last.ret.timestamp = now - 1

====
